---- MODULE Spec2Model ----
(***************************************************************************)
(* The quiz session controller of src/App.tsx (the Game component): its    *)
(* React state, the advance timers set by handleAnswerClick, and the       *)
(* generateFacts requests in flight.  Events (click, timer fire, request   *)
(* resolution, clock tick) are serialised by the single-threaded event     *)
(* loop, and the component re-renders between two events, so every handler *)
(* reads the state of the latest render; a timer callback keeps the        *)
(* handleNextQuestion closure (and so the currentQuestionIndex) of the     *)
(* render in which it was scheduled.  App shows the AuthScreen until the   *)
(* user is authenticated and the Game from then on until Sign Out; the     *)
(* component that is not shown is unmounted: its state is gone, and its    *)
(* pending timers and calls no longer change anything that is displayed.   *)
(* A component that is not mounted is written with its useState initial    *)
(* values, the values it has when it is mounted again.                     *)
(***************************************************************************)
EXTENDS Integers, Sequences, FiniteSets, Bags, TLC

\* ---------------------------------------------------------------- bounds
NumQuestions == 3
\* generateContent calls are never cancelled, so their number grows with
\* every session whose calls stay unanswered.  Up to this many unanswered
\* calls of earlier questions are counted exactly; a larger number is
\* written as MaxUnanswered + 1, which stands for every number above it.
MaxUnanswered == 6

\* ------------------------------------------------------- program constants
CorrectDelay == 3500
IncorrectDelay == 1500
\* line 179: the delay of the simulated network request.
AuthDelay == 1000

IDLE == "IDLE"
CORRECT == "CORRECT"
INCORRECT == "INCORRECT"
AnswerState == {IDLE, CORRECT, INCORRECT}

Null == "null"
FallbackMessage == "Sorry, I couldn't fetch any fun facts right now."
\* line 172.
FillInMessage == "Please fill in all fields."
\* What an input of the form may hold: nothing or some text.
EmailValues == {"", "you@example.com"}
PasswordValues == {"", "secret"}
NameValues == {"", "Your Name"}

\* Texts the text-generation provider may return (response.text).
ResponseTexts == {"factsA", "factsB"}

\* The question data: every question offers the same four distinct
\* options; the correct one rotates with the question.
Countries == <<"France", "Japan", "Brazil", "Kenya">>

FLAG_QUESTIONS ==
    [i \in 1..NumQuestions |->
        [options |-> Countries,
         correctAnswer |-> Countries[((i - 1) % Len(Countries)) + 1]]]

RECURSIVE GCD(_, _)
GCD(a, b) == IF b = 0 THEN a ELSE GCD(b, a % b)

\* The clock advances in steps that divide both delays.
TickUnit == GCD(CorrectDelay, IncorrectDelay)
\* The time since scheduling is followed up to one step past the timer's
\* delay (a timer may fire late).
ElapsedCap(t) == t.delay + TickUnit

Min(a, b) == IF a < b THEN a ELSE b

Range(f) == { f[i] : i \in DOMAIN f }

VARIABLES
    currentQuestionIndex,   \* useState(0), 0-based
    score,                  \* useState(0)
    selectedAnswer,         \* useState<string | null>(null)
    answerState,            \* useState(AnswerState.IDLE)
    isFinished,             \* useState(false)
    facts,                  \* useState<string | null>(null)
    isLoadingFacts,         \* useState(false)
    timers,                 \* pending setTimeout callbacks
    requests,               \* bag of generateContent calls awaiting their result
    lastEvent,              \* history: the kind of the event handled last
    outcomes,               \* history: per question answered in this session,
                            \* whether the selected option was the correct one
    isAuthenticated,        \* App: useState(false)
    isSignIn,               \* AuthScreen: useState(true)
    email,                  \* AuthScreen: useState('')
    password,               \* AuthScreen: useState('')
    name,                   \* AuthScreen: useState('')
    error,                  \* AuthScreen: useState<string | null>(null)
    isLoading,              \* AuthScreen: useState(false)
    authTimers              \* pending setTimeout callbacks of handleSubmit

vars == <<currentQuestionIndex, score, selectedAnswer, answerState, isFinished,
          facts, isLoadingFacts, timers, requests, lastEvent, outcomes,
          isAuthenticated, isSignIn, email, password, name, error, isLoading,
          authTimers>>

authVars == <<isAuthenticated, isSignIn, email, password, name, error, isLoading,
              authTimers>>

gameState == <<currentQuestionIndex, score, selectedAnswer, answerState,
               isFinished, facts, isLoadingFacts>>

gameVars == <<gameState, timers, requests, outcomes>>

currentQuestion == FLAG_QUESTIONS[currentQuestionIndex + 1]

\* AuthScreen as mounted, lines 157-162.
AuthScreenInit ==
    /\ isSignIn = TRUE
    /\ email = ""
    /\ password = ""
    /\ name = ""
    /\ error = Null
    /\ isLoading = FALSE
    /\ authTimers = {}

\* The Game as mounted, lines 8-14.
GameInit ==
    /\ currentQuestionIndex = 0
    /\ score = 0
    /\ selectedAnswer = Null
    /\ answerState = IDLE
    /\ isFinished = FALSE
    /\ facts = Null
    /\ isLoadingFacts = FALSE
    /\ timers = {}
    /\ requests = EmptyBag
    /\ outcomes = << >>

\* App as started, line 266: not authenticated, the AuthScreen shown.
Init ==
    /\ isAuthenticated = FALSE
    /\ AuthScreenInit
    /\ GameInit
    /\ lastEvent = "init"

\* --------------------------------------------------------------- helpers
AcceptsClickUnlessCorrect == answerState # CORRECT
AcceptsClickAnyState == TRUE
AcceptsClickOnceFinished == answerState = IDLE \/ isFinished
\* line 50: the guard of handleAnswerClick.
AcceptsClick == answerState = IDLE

\* line 53: the comparison that decides the evaluation.
IsCorrect(option) == option = currentQuestion.correctAnswer

\* lines 54 and 61.
Evaluate(option) == IF IsCorrect(option) THEN CORRECT ELSE INCORRECT

ScoreAfterAnyOption(option) == score + 1
ScoreAfterWithPenalty(option) == IF IsCorrect(option) THEN score + 1 ELSE score - 1
\* line 55: setScore(prev => prev + 1), only on the correct branch.
ScoreAfter(option) == IF IsCorrect(option) THEN score + 1 ELSE score

AdvanceDelaySwapped(option) == IF IsCorrect(option) THEN IncorrectDelay ELSE CorrectDelay
\* lines 59 and 64: the delay handed to setTimeout.
AdvanceDelay(option) == IF IsCorrect(option) THEN CorrectDelay ELSE IncorrectDelay

\* lines 57-59, 62-64: the callback closes over the handleNextQuestion of
\* this render, i.e. over the current currentQuestionIndex.
NewTimer(option) ==
    [index |-> currentQuestionIndex, delay |-> AdvanceDelay(option), elapsed |-> 0]

TimersAfterClickCorrectOnly(option) ==
    IF IsCorrect(option) THEN timers \cup {NewTimer(option)} ELSE timers
\* lines 57 and 62: both branches call setTimeout.
TimersAfterClick(option) == timers \cup {NewTimer(option)}

NewRequestFirstOption(countryName) ==
    [countryName |-> currentQuestion.options[1], stale |-> FALSE]
\* line 24: the call awaiting the provider's answer.
\* stale (history) is set once the question the call was made for is no
\* longer the current one.
NewRequest(countryName) == [countryName |-> countryName, stale |-> FALSE]

\* lines 28, 31: what setFacts receives when the request settles.
FactsOnSuccess(text) == text
FactsOnFailureNone == Null
FactsOnFailure == FallbackMessage
\* line 33: the finally block.
LoadingAfterSettle == FALSE

NextIndexSkipsOne(t) == t.index + 2
\* line 38-39.
NextIndex(t) == t.index + 1
HasNextButLast(t) == NextIndex(t) < NumQuestions - 1
HasNext(t) == NextIndex(t) < NumQuestions

\* lines 41-43: what the advance writes on the next question.
SelectedAfterAdvanceKept == selectedAnswer
SelectedAfterAdvance == Null
AnswerStateAfterAdvance == IDLE
FactsAfterAdvanceKept == facts
FactsAfterAdvance == Null

ScoreAfterRestartKept == score
\* line 70.
ScoreAfterRestart == 0

\* A call of an earlier question: its continuation (lines 28-33) stores
\* the result whatever country the prompt named, so the country is no
\* longer followed.
EarlierCall == [countryName |-> Null, stale |-> TRUE]

\* The written number of n unanswered calls of earlier questions.
Counted(n) == Min(n, MaxUnanswered + 1)

\* Lines 40 and 69 change the question: the calls still in flight (nothing
\* cancels them) now belong to an earlier question.
Superseded(B) ==
    LET keys == IF BagToSet(B) = {} THEN {} ELSE {EarlierCall}
    IN  [k \in keys |-> Counted(BagCardinality(B))]

\* The calls in flight once call r has its result.  Of more than
\* MaxUnanswered calls of earlier questions, more than MaxUnanswered or
\* exactly MaxUnanswered are left.
RequestsAfterResult(r) ==
    IF r = EarlierCall /\ CopiesIn(r, requests) > MaxUnanswered
    THEN {requests, requests (-) SetToBag({r})}
    ELSE {requests (-) SetToBag({r})}

\* ------------------------------------------------------------- rendering
\* The class strings of getButtonClass, lines 79, 83, 87 and 90.
NeutralClass == "bg-white hover:bg-gray-100 border-gray-200"
CorrectClass == "bg-green-500 text-white border-green-600 scale-105"
IncorrectClass == "bg-red-500 text-white border-red-600"
MutedClass == "bg-white border-gray-200 opacity-70"

ButtonClassSelectedFirst(state, option, selected, correctAnswer) ==
    IF state = IDLE THEN NeutralClass
    ELSE IF option = selected THEN IncorrectClass
    ELSE IF option = correctAnswer THEN CorrectClass
    ELSE MutedClass
\* getButtonClass, lines 77-91, as a function of what it reads.
ButtonClass(state, option, selected, correctAnswer) ==
    IF state = IDLE THEN NeutralClass
    ELSE IF option = correctAnswer THEN CorrectClass
    ELSE IF option = selected /\ option # correctAnswer THEN IncorrectClass
    ELSE MutedClass

\* getButtonClass(option) in the current render.
GetButtonClass(option) ==
    ButtonClass(answerState, option, selectedAnswer, currentQuestion.correctAnswer)

\* line 127: disabled={answerState !== AnswerState.IDLE}.
Disabled(option) == answerState # IDLE

\* --------------------------------------------------------------- actions
\* handleAnswerClick(option), lines 49-66, with the synchronous part of
\* generateFacts (lines 19-22).  threw: the GoogleGenAI constructor throws
\* inside the try block, so catch and finally run within the same event.
\* A click on a settled question returns at line 50.  The Game is mounted
\* while isAuthenticated (lines 270-277).
HandleAnswerClick(option, threw) ==
    /\ isAuthenticated
    /\ option \in { currentQuestion.options[i] : i \in 1..Len(currentQuestion.options) }
    /\ IF ~AcceptsClick
       THEN /\ threw = FALSE
            /\ UNCHANGED <<gameState, timers, requests, outcomes>>
            /\ lastEvent' = "ignoredClick"
       ELSE /\ selectedAnswer' = option
            /\ answerState' = Evaluate(option)
            /\ score' = ScoreAfter(option)
            /\ IF IsCorrect(option)
               THEN IF threw
                    THEN /\ facts' = FactsOnFailure
                         /\ isLoadingFacts' = LoadingAfterSettle
                         /\ requests' = requests
                    ELSE /\ facts' = Null
                         /\ isLoadingFacts' = TRUE
                         /\ requests' = requests (+) SetToBag({NewRequest(currentQuestion.correctAnswer)})
               ELSE /\ threw = FALSE
                    /\ UNCHANGED <<facts, isLoadingFacts, requests>>
            /\ timers' = TimersAfterClick(option)
            /\ lastEvent' = IF threw THEN "clickThrew" ELSE "click"
            /\ outcomes' = Append(outcomes, option = currentQuestion.correctAnswer)
            /\ UNCHANGED <<currentQuestionIndex, isFinished>>
    /\ UNCHANGED authVars

\* generateFacts after the await, success: lines 28 and 33.
GenerateFactsResolve(r, text) ==
    /\ isAuthenticated
    /\ BagIn(r, requests)
    /\ requests' \in RequestsAfterResult(r)
    /\ facts' = FactsOnSuccess(text)
    /\ isLoadingFacts' = LoadingAfterSettle
    /\ lastEvent' = IF r.stale THEN "resolvedLate" ELSE "resolved"
    /\ UNCHANGED <<currentQuestionIndex, score, selectedAnswer, answerState,
                   isFinished, timers, outcomes, authVars>>

\* generateFacts after the await, failure: lines 29-33.
GenerateFactsReject(r) ==
    /\ isAuthenticated
    /\ BagIn(r, requests)
    /\ requests' \in RequestsAfterResult(r)
    /\ facts' = FactsOnFailure
    /\ isLoadingFacts' = LoadingAfterSettle
    /\ lastEvent' = IF r.stale THEN "rejectedLate" ELSE "rejected"
    /\ UNCHANGED <<currentQuestionIndex, score, selectedAnswer, answerState,
                   isFinished, timers, outcomes, authVars>>

\* A timer set at lines 57/62 is due and runs handleNextQuestion, lines 37-47.
HandleNextQuestion(t) ==
    /\ isAuthenticated
    /\ t \in timers
    /\ t.elapsed >= t.delay
    /\ timers' = timers \ {t}
    /\ IF HasNext(t)
       THEN /\ currentQuestionIndex' = NextIndex(t)
            /\ selectedAnswer' = SelectedAfterAdvance
            /\ answerState' = AnswerStateAfterAdvance
            /\ facts' = FactsAfterAdvance
            /\ requests' = Superseded(requests)
            /\ lastEvent' = "advance"
            /\ UNCHANGED isFinished
       ELSE /\ isFinished' = TRUE
            /\ lastEvent' = "finish"
            /\ UNCHANGED <<currentQuestionIndex, selectedAnswer, answerState, facts,
                           requests>>
    /\ UNCHANGED <<score, isLoadingFacts, outcomes, authVars>>

\* restartGame, lines 68-75; its button is rendered only when isFinished
\* (lines 100-112).
RestartGame ==
    /\ isAuthenticated
    /\ isFinished
    /\ currentQuestionIndex' = 0
    /\ score' = ScoreAfterRestart
    /\ selectedAnswer' = Null
    /\ answerState' = IDLE
    /\ isFinished' = FALSE
    /\ facts' = Null
    /\ requests' = Superseded(requests)
    /\ lastEvent' = "restart"
    /\ outcomes' = << >>
    /\ UNCHANGED <<isLoadingFacts, timers, authVars>>

\* Time passes while a timer is pending.
Tick ==
    /\ isAuthenticated
    /\ \E t \in timers : t.elapsed < ElapsedCap(t)
    /\ timers' = { [t EXCEPT !.elapsed = Min(ElapsedCap(t), t.elapsed + TickUnit)] : t \in timers }
    /\ lastEvent' = "tick"
    /\ UNCHANGED <<gameState, requests, outcomes, authVars>>

\* ------------------------------------------------------------ AuthScreen
\* !s of a string, lines 171.
Empty(s) == s = ""

FieldsMissingNameAlways(t) == Empty(t.email) \/ Empty(t.password) \/ Empty(t.name)
\* line 171: !email || !password || (!isSignIn && !name), on the values the
\* callback closed over.
FieldsMissing(t) ==
    Empty(t.email) \/ Empty(t.password) \/ (~t.isSignIn /\ Empty(t.name))

\* lines 170-179: the callback closes over the fields of the render in
\* which the form was submitted.
NewAuthTimer ==
    [isSignIn |-> isSignIn, email |-> email, password |-> password, name |-> name,
     elapsed |-> 0]

\* onChange of the email input, line 207.
SetEmail(v) ==
    /\ ~isAuthenticated
    /\ email' = v
    /\ lastEvent' = "edit"
    /\ UNCHANGED <<isAuthenticated, isSignIn, password, name, error, isLoading,
                   authTimers, gameVars>>

\* onChange of the password input, line 218.
SetPassword(v) ==
    /\ ~isAuthenticated
    /\ password' = v
    /\ lastEvent' = "edit"
    /\ UNCHANGED <<isAuthenticated, isSignIn, email, name, error, isLoading,
                   authTimers, gameVars>>

\* onChange of the name input, line 195; rendered in sign-up mode only
\* (line 189).
SetName(v) ==
    /\ ~isAuthenticated
    /\ ~isSignIn
    /\ name' = v
    /\ lastEvent' = "edit"
    /\ UNCHANGED <<isAuthenticated, isSignIn, email, password, error, isLoading,
                   authTimers, gameVars>>

\* The mode switch, lines 250-253.
ToggleMode ==
    /\ ~isAuthenticated
    /\ isSignIn' = ~isSignIn
    /\ error' = Null
    /\ lastEvent' = "toggle"
    /\ UNCHANGED <<isAuthenticated, email, password, name, isLoading, authTimers,
                   gameVars>>

\* handleSubmit, lines 164-180, up to setTimeout; the submit button is
\* disabled while isLoading (line 232).
HandleSubmit ==
    /\ ~isAuthenticated
    /\ ~isLoading
    /\ error' = Null
    /\ isLoading' = TRUE
    /\ authTimers' = authTimers \cup {NewAuthTimer}
    /\ lastEvent' = "submit"
    /\ UNCHANGED <<isAuthenticated, isSignIn, email, password, name, gameVars>>

\* The callback of lines 170-179 runs; onLogin is setIsAuthenticated(true),
\* line 273: App then shows the Game (mounted with lines 8-14) and the
\* AuthScreen is unmounted.
SubmitTimerFires(t) ==
    /\ ~isAuthenticated
    /\ t \in authTimers
    /\ t.elapsed >= AuthDelay
    /\ authTimers' = authTimers \ {t}
    /\ IF FieldsMissing(t)
       THEN /\ error' = FillInMessage
            /\ isLoading' = FALSE
            /\ lastEvent' = "submitFailed"
            /\ UNCHANGED <<isAuthenticated, isSignIn, email, password, name>>
       ELSE /\ isLoading' = FALSE
            /\ isAuthenticated' = TRUE
            /\ isSignIn' = TRUE
            /\ email' = ""
            /\ password' = ""
            /\ name' = ""
            /\ error' = Null
            /\ lastEvent' = "login"
    /\ UNCHANGED gameVars

\* Sign Out, lines 97 and 276, shown in every state of the Game: the Game
\* is unmounted and the AuthScreen mounted anew.  The timers and calls of
\* the unmounted Game are left out: they set state of a component that is
\* gone, and the Game of the next sign-in starts from lines 8-14.
Logout ==
    /\ isAuthenticated
    /\ isAuthenticated' = FALSE
    /\ isSignIn' = TRUE
    /\ email' = ""
    /\ password' = ""
    /\ name' = ""
    /\ error' = Null
    /\ isLoading' = FALSE
    /\ authTimers' = {}
    /\ currentQuestionIndex' = 0
    /\ score' = 0
    /\ selectedAnswer' = Null
    /\ answerState' = IDLE
    /\ isFinished' = FALSE
    /\ facts' = Null
    /\ isLoadingFacts' = FALSE
    /\ timers' = {}
    /\ requests' = EmptyBag
    /\ outcomes' = << >>
    /\ lastEvent' = "logout"

\* Time passes while a submission is pending.
AuthTick ==
    /\ ~isAuthenticated
    /\ \E t \in authTimers : t.elapsed < AuthDelay + TickUnit
    /\ authTimers' = { [t EXCEPT !.elapsed = Min(AuthDelay + TickUnit, t.elapsed + TickUnit)] :
                         t \in authTimers }
    /\ lastEvent' = "authTick"
    /\ UNCHANGED <<isAuthenticated, isSignIn, email, password, name, error, isLoading,
                   gameVars>>

\* ------------------------------------------------------------------ App
Next ==
    \/ \E option \in Range(Countries), threw \in BOOLEAN : HandleAnswerClick(option, threw)
    \/ \E r \in BagToSet(requests), text \in ResponseTexts : GenerateFactsResolve(r, text)
    \/ \E r \in BagToSet(requests) : GenerateFactsReject(r)
    \/ \E t \in timers : HandleNextQuestion(t)
    \/ RestartGame
    \/ Tick
    \/ \E v \in EmailValues : SetEmail(v)
    \/ \E v \in PasswordValues : SetPassword(v)
    \/ \E v \in NameValues : SetName(v)
    \/ ToggleMode
    \/ HandleSubmit
    \/ \E t \in authTimers : SubmitTimerFires(t)
    \/ Logout
    \/ AuthTick

Spec == Init /\ [][Next]_vars

\* The event loop runs a due timer and the clock does not stop; the user of
\* the progression claim answers every question shown.
UserAnswers == \E option \in Range(Countries), threw \in BOOLEAN :
                   AcceptsClick /\ HandleAnswerClick(option, threw)
TimerFires == \E t \in timers : HandleNextQuestion(t)

FairSpec ==
    /\ Init /\ [][Next]_vars
    /\ WF_vars(Tick)
    /\ WF_vars(TimerFires)
    /\ WF_vars(UserAnswers)

TypeOK ==
    /\ currentQuestionIndex \in 0..(NumQuestions - 1)
    /\ score \in Nat
    /\ selectedAnswer \in Range(Countries) \cup {Null}
    /\ answerState \in AnswerState
    /\ isFinished \in BOOLEAN
    /\ facts \in ResponseTexts \cup {FallbackMessage, Null}
    /\ isLoadingFacts \in BOOLEAN
    /\ isAuthenticated \in BOOLEAN

\* ---------------------------------------------------------------- claims
\* C1: an option selected while the evaluation is pending becomes
\* selectedAnswer; the correct option gives CORRECT and score + 1, any other
\* option gives INCORRECT and the same score.
C1_SelectionEvaluates ==
    [][\A option \in Range(Countries), threw \in BOOLEAN :
         (answerState = IDLE /\ HandleAnswerClick(option, threw)) =>
            /\ selectedAnswer' = option
            /\ IF option = FLAG_QUESTIONS[currentQuestionIndex + 1].correctAnswer
               THEN answerState' = CORRECT /\ score' = score + 1
               ELSE answerState' = INCORRECT /\ score' = score]_vars

\* The last question answered correctly after the earlier ones were
\* answered wrongly.
C1_Witness ==
    /\ lastEvent = "click"
    /\ currentQuestionIndex = NumQuestions - 1
    /\ answerState = CORRECT
    /\ selectedAnswer = currentQuestion.correctAnswer
    /\ score = 1

\* C2: once the evaluation is no longer pending, a further selection changes
\* neither score, selectedAnswer nor evaluation, and starts no timer and no
\* generation request.
C2_SettledClicksIgnored ==
    [][\A option \in Range(Countries), threw \in BOOLEAN :
         (answerState # IDLE /\ HandleAnswerClick(option, threw)) =>
            UNCHANGED <<gameState, timers, requests>>]_vars

C2_Witness ==
    /\ lastEvent = "ignoredClick"
    /\ answerState = INCORRECT
    /\ ~isFinished
    /\ timers # {}

\* C3: a generation response that settles after the question changed leaves
\* facts and isLoadingFacts of the current question as they are.
C3_StaleResponseDiscarded ==
    [][\A r \in BagToSet(requests) :
         r.stale =>
            /\ GenerateFactsReject(r) => UNCHANGED <<facts, isLoadingFacts>>
            /\ \A text \in ResponseTexts :
                  GenerateFactsResolve(r, text) => UNCHANGED <<facts, isLoadingFacts>>]_vars

\* C4: right after an advance to the next question and right after a
\* restart, facts is absent and isLoadingFacts is false.
C4_ClearedOnQuestionChange ==
    lastEvent \in {"advance", "restart"} => (facts = Null /\ isLoadingFacts = FALSE)

\* C5: selectedAnswer is set exactly when the evaluation is not pending.
C5_SelectedIffSettled == (selectedAnswer # Null) <=> (answerState # IDLE)

C5_Witness ==
    /\ isFinished
    /\ answerState = INCORRECT
    /\ selectedAnswer # Null
    /\ selectedAnswer # currentQuestion.correctAnswer

\* C6: the advance runs only from the timer set by the selection on the
\* current question, no sooner than 3500 after a correct and 1500 after an
\* incorrect selection, and leaves no timer behind that could advance the
\* question again; there is never more than one timer.
C6_AdvanceOncePerAnswer ==
    /\ [](Cardinality(timers) <= 1)
    /\ [](timers # {} <=> (answerState # IDLE /\ ~isFinished))
    /\ [][\A t \in timers :
            HandleNextQuestion(t) =>
               /\ answerState # IDLE
               /\ t.index = currentQuestionIndex
               /\ t.elapsed >= (IF answerState = CORRECT THEN CorrectDelay
                                                         ELSE IncorrectDelay)
               /\ timers' = {}]_vars
    /\ [][(currentQuestionIndex' > currentQuestionIndex \/ (isFinished' /\ ~isFinished))
            => \E t \in timers : HandleNextQuestion(t)]_vars

C6_Witness ==
    /\ lastEvent = "advance"
    /\ currentQuestionIndex = 1
    /\ score = 1
    /\ timers = {}

\* C7: the advance on the last question sets isFinished, and while the
\* finished Game stays mounted no step other than restart changes score (or
\* leaves the finished state).
C7_FinishedFreezesScore ==
    [][/\ \A t \in timers :
            (HandleNextQuestion(t) /\ currentQuestionIndex + 1 = NumQuestions)
               => isFinished'
       /\ (isFinished /\ ~RestartGame /\ ~Logout) => (score' = score /\ isFinished')]_vars

\* A response arrives on the finished screen.
C7_Witness ==
    /\ isFinished
    /\ lastEvent \in {"resolved", "rejected"}
    /\ score > 0

\* C8: restart gives currentQuestionIndex 0, score 0, no selectedAnswer,
\* pending evaluation, not finished and no facts: the values of Init.  In
\* every finished state, with however many calls unanswered, restartGame
\* can run and can only end in these values.
C8_RestartResets ==
    /\ lastEvent = "restart" =>
          /\ currentQuestionIndex = 0
          /\ score = 0
          /\ selectedAnswer = Null
          /\ answerState = IDLE
          /\ isFinished = FALSE
          /\ facts = Null
    /\ (isAuthenticated /\ isFinished) =>
          /\ ENABLED RestartGame
          /\ ~ENABLED (RestartGame /\ ~(/\ currentQuestionIndex' = 0
                                        /\ score' = 0
                                        /\ selectedAnswer' = Null
                                        /\ answerState' = IDLE
                                        /\ isFinished' = FALSE
                                        /\ facts' = Null))

\* Restart while a request of the finished session is still in flight.
C8_Witness ==
    /\ lastEvent = "restart"
    /\ BagCardinality(requests) > 0

\* C9: a failed request (also one failing before it is sent) stores the
\* fallback message and clears isLoadingFacts, and the advance stays
\* scheduled; a successful one stores the returned text and clears
\* isLoadingFacts.
C9_FailureFallsBack ==
    [][/\ \A r \in BagToSet(requests) :
            /\ GenerateFactsReject(r) =>
                  (facts' = FallbackMessage /\ isLoadingFacts' = FALSE /\ timers' = timers)
            /\ \A text \in ResponseTexts :
                  GenerateFactsResolve(r, text) =>
                     (facts' = text /\ isLoadingFacts' = FALSE /\ timers' = timers)
       /\ \A option \in Range(Countries) :
            (answerState = IDLE /\ HandleAnswerClick(option, TRUE)) =>
               (facts' = FallbackMessage /\ isLoadingFacts' = FALSE /\ timers' # {})]_vars

\* The request of the current question failed while its advance is pending.
C9_Witness ==
    /\ lastEvent = "rejected"
    /\ facts = FallbackMessage
    /\ isLoadingFacts = FALSE
    /\ answerState = CORRECT
    /\ \E t \in timers : t.elapsed < t.delay

\* C10: every answered question is eventually followed by its advance, and
\* a user who keeps answering reaches the finished screen, whatever becomes
\* of the generation requests (a user who signs out has left the quiz).
C10_ProgressWithoutFacts ==
    /\ (isAuthenticated /\ answerState # IDLE /\ ~isFinished)
          ~> (lastEvent \in {"advance", "finish"} \/ ~isAuthenticated)
    /\ (isAuthenticated /\ ~isFinished) ~> ((isAuthenticated /\ isFinished) \/ ~isAuthenticated)

\* Finished with requests that never settled.
C10_Witness ==
    /\ isFinished
    /\ isLoadingFacts
    /\ BagCardinality(requests) = NumQuestions

\* Number of questions of the session answered with the correct option.
RECURSIVE CorrectCount(_)
CorrectCount(seq) ==
    IF seq = << >> THEN 0
    ELSE (IF Head(seq) THEN 1 ELSE 0) + CorrectCount(Tail(seq))

\* C11: score stays within 0..questionCount; a finished session has answered
\* every question and its score is the number of correctly answered ones;
\* correct, incorrect, correct on three questions ends with score 2, and the
\* session is not finished before the last answer's advance.
C11_ScoreCountsCorrectAnswers ==
    /\ score \in 0..NumQuestions
    /\ isFinished =>
          /\ Len(outcomes) = NumQuestions
          /\ score = CorrectCount(outcomes)
          /\ timers = {}
    /\ (isFinished /\ outcomes = <<TRUE, FALSE, TRUE>>) => score = 2
    /\ (Len(outcomes) < NumQuestions \/ timers # {}) => ~isFinished

C11_Witness ==
    /\ isFinished
    /\ outcomes = <<TRUE, FALSE, TRUE>>
    /\ score = 2
    /\ lastEvent = "finish"

\* C12: while any generation request is outstanding, isLoadingFacts is true.
C12_LoadingWhileOutstanding ==
    BagCardinality(requests) > 0 => isLoadingFacts = TRUE

\* C13: only the step from pending to correct starts a generation call,
\* exactly one, for the correct answer of the current question (it is then
\* in flight, or has failed within the same event); no other step (a wrong
\* selection, an advance, a restart) adds a call.
C13_RequestOnlyOnCorrect ==
    [][IF answerState = IDLE /\ answerState' = CORRECT
       THEN \/ /\ lastEvent' = "click"
               /\ requests' = requests (+) SetToBag({
                      [countryName |-> FLAG_QUESTIONS[currentQuestionIndex + 1].correctAnswer,
                       stale |-> FALSE]})
            \/ /\ lastEvent' = "clickThrew"
               /\ facts' = FallbackMessage
               /\ requests' = requests
       ELSE /\ BagCardinality(requests') <= BagCardinality(requests)
            /\ \A r \in BagToSet(requests') : ~r.stale => BagIn(r, requests)]_vars

\* The second question answered correctly: its call names its own country.
C13_Witness ==
    /\ lastEvent = "click"
    /\ currentQuestionIndex = 1
    /\ answerState = CORRECT
    /\ requests = SetToBag({[countryName |-> currentQuestion.correctAnswer, stale |-> FALSE]})

\* C14 (as claimed): never more than one timer and never more than one
\* generation request outstanding.
C14_AtMostOneOfEach ==
    /\ Cardinality(timers) <= 1
    /\ BagCardinality(requests) <= 1

\* C14 (amended): never more than one timer and never more than one request
\* made for the current question; a selection is evaluated only when no
\* timer is pending, while requests of earlier questions may be in flight.
C14_OneTimerOneCurrentRequest ==
    /\ [](Cardinality(timers) <= 1)
    /\ [](\A r \in BagToSet(requests) : ~r.stale => CopiesIn(r, requests) = 1)
    /\ [](Cardinality({ r \in BagToSet(requests) : ~r.stale }) <= 1)
    /\ [][(answerState = IDLE /\ answerState' # IDLE) => timers = {}]_vars

\* A selection is evaluated while a request of an earlier question is still
\* in flight.
C14_Witness ==
    /\ lastEvent = "click"
    /\ answerState = CORRECT
    /\ BagCardinality(requests) = 2
    /\ \E r \in BagToSet(requests) : r.stale

\* C15 (as claimed): exactly one of "finished" and "currentQuestionIndex
\* indexes a question" holds, and the index stays within 0..questionCount.
C15_FinishedXorCurrentQuestion ==
    /\ currentQuestionIndex \in 0..NumQuestions
    /\ isFinished <=> ~(currentQuestionIndex + 1 \in DOMAIN FLAG_QUESTIONS)

\* C15 (amended): the index always indexes a question, also when finished;
\* the session is finished only with the index on the last, answered,
\* question, and the step that finishes leaves the index where it is.
C15_IndexAlwaysOnAQuestion ==
    /\ [](currentQuestionIndex + 1 \in DOMAIN FLAG_QUESTIONS)
    /\ [](isFinished => (currentQuestionIndex = NumQuestions - 1 /\ answerState # IDLE))
    /\ [][(isFinished' /\ ~isFinished) =>
            (currentQuestionIndex = NumQuestions - 1 /\ UNCHANGED currentQuestionIndex)]_vars

C15_Witness ==
    /\ isFinished
    /\ lastEvent = "finish"
    /\ currentQuestionIndex = NumQuestions - 1
    /\ currentQuestion.correctAnswer = selectedAnswer

\* The visual category a class string stands for.
CategoryOf(class) ==
    CASE class = NeutralClass -> "neutral"
      [] class = CorrectClass -> "correct"
      [] class = IncorrectClass -> "incorrect"
      [] class = MutedClass -> "muted"

\* The table of the rendering contract.
ReferenceCategory(state, option, selected, correctAnswer) ==
    IF state = IDLE THEN "neutral"
    ELSE IF option = correctAnswer THEN "correct"
    ELSE IF option = selected THEN "incorrect"
    ELSE "muted"

\* C16: for every combination of evaluation, option, selectedAnswer and
\* correctAnswer the class of getButtonClass is the category of the table;
\* in every settled state exactly one option of the question is styled
\* correct, at most one incorrect, and every option is disabled.
C16_ButtonClassMatchesTable ==
    /\ \A state \in AnswerState, option \in Range(Countries),
          selected \in Range(Countries) \cup {Null}, correctAnswer \in Range(Countries) :
          CategoryOf(ButtonClass(state, option, selected, correctAnswer))
             = ReferenceCategory(state, option, selected, correctAnswer)
    /\ answerState # IDLE =>
          /\ Cardinality({ o \in Range(currentQuestion.options) :
                             GetButtonClass(o) = CorrectClass }) = 1
          /\ Cardinality({ o \in Range(currentQuestion.options) :
                             GetButtonClass(o) = IncorrectClass }) <= 1
          /\ \A o \in Range(currentQuestion.options) : Disabled(o)
    /\ answerState = IDLE =>
          \A o \in Range(currentQuestion.options) :
             GetButtonClass(o) = NeutralClass /\ ~Disabled(o)

\* A wrong selection: the selected option is styled incorrect, the correct
\* one correct, the other two muted.
C16_Witness ==
    /\ answerState = INCORRECT
    /\ GetButtonClass(selectedAnswer) = IncorrectClass
    /\ GetButtonClass(currentQuestion.correctAnswer) = CorrectClass
    /\ Cardinality({ o \in Range(currentQuestion.options) :
                       GetButtonClass(o) = MutedClass }) = 2

\* C17: the advance either moves to the next index, clearing
\* selectedAnswer, evaluation and facts with score and isFinished unchanged,
\* or (on the last question) sets isFinished and leaves the index, score,
\* selectedAnswer, evaluation and facts unchanged.
C17_AdvanceTwoOutcomes ==
    [][\A t \in timers :
         HandleNextQuestion(t) =>
            IF currentQuestionIndex + 1 < NumQuestions
            THEN /\ currentQuestionIndex' = currentQuestionIndex + 1
                 /\ selectedAnswer' = Null
                 /\ answerState' = IDLE
                 /\ facts' = Null
                 /\ UNCHANGED <<score, isFinished>>
            ELSE /\ isFinished' = TRUE
                 /\ UNCHANGED <<currentQuestionIndex, score, selectedAnswer,
                                answerState, facts>>]_vars

\* An advance that cleared facts of the question before.
C17_Witness ==
    /\ lastEvent = "advance"
    /\ currentQuestionIndex = NumQuestions - 1
    /\ facts = Null
    /\ score = NumQuestions - 1
    /\ requests = EmptyBag

\* Some request in flight before the step is still in flight after it (a
\* step settles at most one request).
RequestStaysInFlight ==
    /\ BagCardinality(requests) >= 1
    /\ isAuthenticated'
    /\ \/ BagCardinality(requests') >= BagCardinality(requests)
       \/ BagCardinality(requests) >= 2

\* C18: while a request stays unanswered, isLoadingFacts stays true
\* whatever else happens.
C18_HangKeepsLoading ==
    [][(isLoadingFacts /\ RequestStaysInFlight) => isLoadingFacts']_vars

\* C19 (as claimed): every submission ends with isLoading cleared, the user
\* authenticated and no error.
C19_EverySubmitSucceeds ==
    lastEvent \in {"login", "submitFailed"} =>
        (isAuthenticated /\ ~isLoading /\ error = Null)

\* C19 (amended): a submission ends, no sooner than the delay, with
\* isLoading cleared; it authenticates exactly when email and password, and
\* in sign-up mode the name, were filled in when the form was submitted, and
\* otherwise sets the error message and leaves the user unauthenticated.
C19_SubmitSucceedsIffFilled ==
    [][\A t \in authTimers :
         SubmitTimerFires(t) =>
            /\ t.elapsed >= AuthDelay
            /\ isLoading /\ ~isLoading'
            /\ IF t.email # "" /\ t.password # "" /\ (t.isSignIn \/ t.name # "")
               THEN isAuthenticated' /\ error' = Null
               ELSE ~isAuthenticated' /\ error' = FillInMessage]_vars

\* A sign-up with email and password but no name has failed.
C19_Witness ==
    /\ lastEvent = "submitFailed"
    /\ ~isAuthenticated
    /\ ~isLoading
    /\ error = FillInMessage
    /\ ~isSignIn
    /\ name = ""
    /\ email # ""
    /\ password # ""

\* C20: a timer that fires acts on the question it was set for; no timer is
\* pending on the finished screen (so none when restart is invoked); the
\* index moves only by one step forward, or back to 0 by restart (or with
\* the Game as a whole, on Sign Out), and the session has answered each
\* question before the current one exactly once.
C20_TimerActsOnItsQuestion ==
    /\ [][\A t \in timers :
            HandleNextQuestion(t) => t.index = currentQuestionIndex]_vars
    /\ [](isFinished => timers = {})
    /\ [][RestartGame => timers = {}]_vars
    /\ [][currentQuestionIndex' # currentQuestionIndex =>
            \/ currentQuestionIndex' = currentQuestionIndex + 1
            \/ (isFinished /\ lastEvent' = "restart" /\ currentQuestionIndex' = 0)
            \/ Logout]_vars
    /\ [](Len(outcomes) = currentQuestionIndex + (IF answerState = IDLE THEN 0 ELSE 1))

\* The last question is reached after every earlier one was answered once.
C20_Witness ==
    /\ lastEvent = "advance"
    /\ currentQuestionIndex = NumQuestions - 1
    /\ Len(outcomes) = NumQuestions - 1
    /\ timers = {}

====
